---- MODULE Spec2Model ----
(***************************************************************************)
(* Model of the Aven.com ingestion pipeline: data_preprocessor.py,         *)
(* gemini_embedding_generator.py, chromadb_integration.py and              *)
(* main_pipeline.py.                                                       *)
(*                                                                         *)
(* Python strings are sequences of one-character strings, so that          *)
(* lower(), strip(), split(), substring tests, the regular expressions of  *)
(* clean_content and the id formatting are computed, not assumed.          *)
(*                                                                         *)
(* Specifications:                                                         *)
(*   SpecFilter  filter_relevant_content applied to bounded page lists     *)
(*   SpecPre     one preprocessor, process_data called repeatedly          *)
(*   SpecEmbed   process_data_with_embeddings / generate_summary           *)
(*   SpecStore   insert_data_into_chroma called repeatedly on a collection *)
(*   Spec        main() / run_pipeline of main_pipeline.py                 *)
(***************************************************************************)
EXTENDS Integers, Sequences, FiniteSets, TLC

VARIABLES
    \* ---- AvenDataPreprocessor
    input_file,       \* the file self.input_file names: [kind, page_info]
    processed_data,   \* self.processed_data (the list the later stages share)
    raw_data,         \* argument of filter_relevant_content
    relevant_data,    \* its return value
    ncalls,           \* number of completed calls of the operation under test
    \* ---- GeminiEmbeddingGenerator
    remote,           \* behaviour of genai.embed_content per text
    texts,            \* generate_embeddings_batch: its argument
    batch_size,       \* generate_embeddings_batch: its argument
    embeddings,       \* generate_embeddings_batch: local list, then the result
    batch_embeddings, \* first-pass vectors of the current batch
    bi,               \* start index (0-based) of the current batch
    bk,               \* offset of the next text inside the current batch
    calls,            \* calls[i]: remote calls issued for texts[i]
    received,         \* processed_data as handed to process_data_with_embeddings
    summary,          \* return value of generate_summary
    \* ---- AvenChromaDBIntegration
    collection,       \* the store: id -> [document, metadata]
    records,          \* insert_data_into_chroma: its processed_data argument
    ins_rows,         \* insert_data_into_chroma: its lists ids, documents, metadatas
    ins_batch,        \* insert_data_into_chroma: its batch_size argument
    ins_i,            \* insert_data_into_chroma: loop index i
    add_calls,        \* collection.add calls issued by the current insert call
    ins_result,       \* "none", "running", "returned" or "raised"
    count_after,      \* total_items of get_collection_stats after each insert
    \* ---- main_pipeline
    env,              \* environment variables that are set
    deps_ok,          \* every required package imports
    argv_help,        \* sys.argv[1] == "--help"
    pc,               \* position of the program
    log,              \* outward actions, in order
    failed_at,        \* stage whose failure made run_pipeline return False
    success,          \* return value of run_pipeline ("none" before it returns)
    exit_status,      \* process exit status (-1 while running)
    \* ---- one method called on its own
    call_arg,         \* the arguments of the call
    call_result       \* the values returned, in order

vars == <<input_file, processed_data, raw_data, relevant_data, ncalls,
          remote, texts, batch_size, embeddings, batch_embeddings, bi, bk,
          calls, received, summary,
          collection, records, ins_rows, ins_batch, ins_i, add_calls, ins_result,
          count_after,
          env, deps_ok, argv_help, pc, log, failed_at, success, exit_status,
          call_arg, call_result>>

preVars   == <<input_file, processed_data, raw_data, relevant_data, ncalls>>
embedVars == <<remote, texts, batch_size, embeddings, batch_embeddings, bi, bk,
               calls, received, summary>>
storeVars == <<collection, records, ins_rows, ins_batch, ins_i, add_calls, ins_result,
               count_after>>
pipeVars  == <<env, deps_ok, argv_help, log, failed_at, success, exit_status>>
callVars  == <<call_arg, call_result>>

-----------------------------------------------------------------------------
(* Bounds of the model.                                                    *)
MaxPages == 2
MaxFilePages == 2
MaxCalls == 2
MaxItems == 3
MaxBatch == 2
MaxRecords == 3

-----------------------------------------------------------------------------
(* Characters and strings.                                                 *)
LowerLetters == <<"a","b","c","d","e","f","g","h","i","j","k","l","m",
                  "n","o","p","q","r","s","t","u","v","w","x","y","z">>
UpperLetters == <<"A","B","C","D","E","F","G","H","I","J","K","L","M",
                  "N","O","P","Q","R","S","T","U","V","W","X","Y","Z">>
Digits == <<"0","1","2","3","4","5","6","7","8","9">>
Range(s) == {s[i] : i \in DOMAIN s}

\* str.isspace / the regex class \s
IsSpace(c) == c \in {" ", "\t", "\n", "\r"}
\* the regex class \w
IsWordChar(c) == c \in Range(LowerLetters) \cup Range(UpperLetters)
                       \cup Range(Digits) \cup {"_"}
\* the characters line 75 keeps: [\w\s\.\,\!\?\:\;\-\(\)\$\%]
IsKeptChar(c) == \/ IsWordChar(c)
                 \/ IsSpace(c)
                 \/ c \in {".", ",", "!", "?", ":", ";", "-", "(", ")", "$", "%"}

LowerChar(c) == IF c \in Range(UpperLetters)
                THEN LowerLetters[CHOOSE i \in DOMAIN UpperLetters : UpperLetters[i] = c]
                ELSE c
\* str.lower
Lower(s) == [i \in 1..Len(s) |-> LowerChar(s[i])]

\* sub in s
Contains(s, sub) == \E i \in 0..(Len(s) - Len(sub)) : SubSeq(s, i + 1, i + Len(sub)) = sub
\* s.endswith(suf)
EndsWith(s, suf) == /\ Len(s) >= Len(suf)
                    /\ SubSeq(s, Len(s) - Len(suf) + 1, Len(s)) = suf

\* str.strip
Strip(s) ==
    LET keep == {i \in 1..Len(s) : ~IsSpace(s[i])}
    IN  IF keep = {} THEN <<>>
        ELSE LET lo == CHOOSE i \in keep : \A j \in keep : i <= j
                 hi == CHOOSE i \in keep : \A j \in keep : i >= j
             IN  SubSeq(s, lo, hi)

\* len(s.split()): the number of maximal runs of non-whitespace
WordCount(s) == Cardinality({i \in 1..Len(s) :
                    ~IsSpace(s[i]) /\ (i = 1 \/ IsSpace(s[i - 1]))})

\* str(n) for n >= 0
RECURSIVE Dec(_)
Dec(n) == IF n < 10 THEN <<Digits[n + 1]>>
          ELSE Dec(n \div 10) \o <<Digits[(n % 10) + 1]>>

\* all sequences over S of length at most n
RECURSIVE SeqsUpTo(_, _)
SeqsUpTo(S, n) == IF n = 0 THEN {<<>>}
                  ELSE LET shorter == SeqsUpTo(S, n - 1)
                       IN  shorter \cup {Append(s, x) : s \in {t \in shorter : Len(t) = n - 1}, x \in S}

RECURSIVE SumSeq(_)
SumSeq(s) == IF s = <<>> THEN 0 ELSE Head(s) + SumSeq(Tail(s))

-----------------------------------------------------------------------------
(* String literals of the source and of the inputs.                        *)
S_aven_com == <<"a","v","e","n",".","c","o","m">>
S_staging == <<"s","t","a","g","i","n","g">>
S_internal_crypto == <<"i","n","t","e","r","n","a","l","/","c","r","y","p","t","o">>
S_dot_pdf == <<".","p","d","f">>
S_sentinel == <<"n","e","t","w","o","r","k"," ","a","p","p","e","a","r","s"," ","t","o"," ","i","n","t","e","r","f","e","r","e">>
S_education == <<"e","d","u","c","a","t","i","o","n">>
S_support == <<"s","u","p","p","o","r","t">>
S_help == <<"h","e","l","p">>
S_docs == <<"d","o","c","s">>
S_privacy == <<"p","r","i","v","a","c","y">>
S_login == <<"l","o","g","i","n">>
S_my_aven == <<"m","y",".","a","v","e","n">>
S_join == <<"j","o","i","n">>
S_cash_back == <<"c","a","s","h"," ","b","a","c","k">>
S_home_equity == <<"h","o","m","e"," ","e","q","u","i","t","y">>
S_heloc == <<"h","e","l","o","c">>
S_credit_card == <<"c","r","e","d","i","t"," ","c","a","r","d">>
S_balance_transfer == <<"b","a","l","a","n","c","e"," ","t","r","a","n","s","f","e","r">>
U_faq == <<"h","t","t","p","s",":","/","/","a","v","e","n",".","c","o","m","/","s","u","p","p","o","r","t","/","f","a","q">>
U_card == <<"a","v","e","n",".","c","o","m","/","c","a","r","d">>
U_card_1 == <<"a","v","e","n",".","c","o","m","/","c","a","r","d","_","1">>
U_upper == <<"h","t","t","p","s",":","/","/","A","V","E","N",".","C","O","M","/","j","o","i","n">>
U_other == <<"h","t","t","p","s",":","/","/","e","x","a","m","p","l","e",".","o","r","g","/","a">>
U_staging == <<"h","t","t","p","s",":","/","/","s","t","a","g","i","n","g",".","a","v","e","n",".","c","o","m","/","x">>
U_STAGING == <<"h","t","t","p","s",":","/","/","a","v","e","n",".","c","o","m","/","S","T","A","G","I","N","G">>
U_crypto == <<"h","t","t","p","s",":","/","/","a","v","e","n",".","c","o","m","/","i","n","t","e","r","n","a","l","/","c","r","y","p","t","o">>
U_pdf == <<"h","t","t","p","s",":","/","/","a","v","e","n",".","c","o","m","/","d","o","c","s","/","t",".","p","d","f">>
U_PDF == <<"h","t","t","p","s",":","/","/","a","v","e","n",".","c","o","m","/","t",".","P","D","F">>
T_faq == <<"F","A","Q">>
T_help == <<"H","e","l","p"," ","C","e","n","t","e","r">>
T_card == <<"C","a","r","d">>
C_faq == <<"O","u","r"," ","c","a","s","h"," ","b","a","c","k"," ","i","s"," ","2","%","."," ","C","a","l","l"," ","(","5","5","5",")"," ","1","2","3","-","4","5","6","7",".">>
C_ten == <<"a"," ","b"," ","c"," ","d"," ","e"," ","f"," ","g"," ","h"," ","i"," ","j">>
C_ten2 == <<"o","n","e"," "," ","t","w","o","\n","t","h","r","e","e"," ","f","o","u","r"," ","f","i","v","e"," ","s","i","x"," ","s","e","v","e","n"," ","e","i","g","h","t"," ","n","i","n","e"," ","t","e","n">>
C_blank == <<" ","\t","\n">>
C_sentinel == <<"Y","o","u","r"," ","N","e","t","w","o","r","k"," ","A","p","p","e","a","r","s"," ","T","o"," ","I","n","t","e","r","f","e","r","e"," ","w","i","t","h"," ","x">>
C_tags == <<"<","b",">","c","r","e","d","i","t"," ","c","a","r","d","<","/","b",">"," ","a"," ","b"," ","c"," ","d"," ","e"," ","f"," ","g"," ","h"," ","@"," ","i">>

-----------------------------------------------------------------------------
(* data_preprocessor.py                                                    *)

\* item.get(key, '')
Get(item, key) == IF key \in DOMAIN item THEN item[key] ELSE <<>>

\* Faulty variant: the domain test compares the url as written, not lower-cased
FilterSkips_CaseSensitive(item) ==
    LET url     == Get(item, "url")
        title   == Get(item, "title")
        content == Get(item, "content")
    IN  \/ content = <<>> \/ Strip(content) = <<>>
        \/ Contains(Lower(content), S_sentinel)
        \/ url # <<>> /\ ~Contains(url, S_aven_com)
        \/ Contains(Lower(url), S_staging)
        \/ Contains(Lower(url), S_internal_crypto)
        \/ title = <<>> /\ ~EndsWith(url, S_dot_pdf)

\* The body of the loop of filter_relevant_content: TRUE when one of the
\* `continue` statements is taken, FALSE when the item is appended.
FilterSkips(item) ==
    LET url     == Get(item, "url")
        title   == Get(item, "title")
        content == Get(item, "content")
    IN  \/ content = <<>> \/ Strip(content) = <<>>
        \/ Contains(Lower(content), S_sentinel)
        \/ url # <<>> /\ ~Contains(Lower(url), S_aven_com)
        \/ Contains(Lower(url), S_staging)
        \/ Contains(Lower(url), S_internal_crypto)
        \/ title = <<>> /\ ~EndsWith(url, S_dot_pdf)

RECURSIVE filter_relevant_content(_)
filter_relevant_content(raw) ==
    IF raw = <<>> THEN <<>>
    ELSE IF FilterSkips(Head(raw))
         THEN filter_relevant_content(Tail(raw))
         ELSE <<Head(raw)>> \o filter_relevant_content(Tail(raw))

\* re.sub(cls+, ' ', s): every maximal run of characters of cls becomes one space
RECURSIVE ReplaceRuns(_, _)
ReplaceRuns(s, cls) ==
    IF s = <<>> THEN <<>>
    ELSE LET rest == ReplaceRuns(Tail(s), cls)
         IN  IF Head(s) \in cls
             THEN IF Len(s) > 1 /\ s[2] \in cls THEN rest ELSE <<" ">> \o rest
             ELSE <<Head(s)>> \o rest

\* index of the '>' closing a match of <[^>]+> that starts at p, or 0
TagEnd(s, p) ==
    LET closers == {q \in (p + 1)..Len(s) : s[q] = ">"}
    IN  IF closers = {} THEN 0
        ELSE LET q == CHOOSE q \in closers : \A r \in closers : q <= r
             IN  IF q >= p + 2 THEN q ELSE 0

\* re.sub(r'<[^>]+>', '', s), scanning from position p
RECURSIVE RemoveTagsFrom(_, _)
RemoveTagsFrom(s, p) ==
    IF p > Len(s) THEN <<>>
    ELSE IF s[p] = "<" /\ TagEnd(s, p) # 0
         THEN RemoveTagsFrom(s, TagEnd(s, p) + 1)
         ELSE <<s[p]>> \o RemoveTagsFrom(s, p + 1)

clean_content(content) ==
    IF content = <<>> THEN <<>>
    ELSE LET c1 == ReplaceRuns(Strip(content), {" ", "\t", "\n", "\r"})
             c2 == ReplaceRuns(c1, {"\n"})
             c3 == ReplaceRuns(c2, {"\t"})
             c4 == RemoveTagsFrom(c3, 1)
             c5 == SelectSeq(c4, IsKeptChar)
         IN  IF c5 = <<>> \/ \A i \in DOMAIN c5 : IsSpace(c5[i]) THEN <<>> ELSE c5

\* Faulty variant: the support test stands before the education test
categorize_content_SupportFirst(url, title, content) ==
    LET url_lower   == Lower(url)
        title_lower == Lower(title)
    IN  IF Contains(url_lower, S_support) \/ Contains(title_lower, S_help)
        THEN "support"
        ELSE IF Contains(url_lower, S_education) \/ Contains(title_lower, S_education)
        THEN "education"
        ELSE IF Contains(url_lower, S_dot_pdf) \/ Contains(url_lower, S_docs)
        THEN "legal_document"
        ELSE IF Contains(url_lower, S_privacy) \/ Contains(title_lower, S_privacy)
        THEN "privacy_policy"
        ELSE IF Contains(url_lower, S_login) \/ Contains(url_lower, S_my_aven)
        THEN "account_management"
        ELSE IF Contains(url_lower, S_join)
        THEN "signup"
        ELSE "product_info"

categorize_content(url, title, content) ==
    LET url_lower   == Lower(url)
        title_lower == Lower(title)
    IN  IF Contains(url_lower, S_education) \/ Contains(title_lower, S_education)
        THEN "education"
        ELSE IF Contains(url_lower, S_support) \/ Contains(title_lower, S_help)
        THEN "support"
        ELSE IF Contains(url_lower, S_dot_pdf) \/ Contains(url_lower, S_docs)
        THEN "legal_document"
        ELSE IF Contains(url_lower, S_privacy) \/ Contains(title_lower, S_privacy)
        THEN "privacy_policy"
        ELSE IF Contains(url_lower, S_login) \/ Contains(url_lower, S_my_aven)
        THEN "account_management"
        ELSE IF Contains(url_lower, S_join)
        THEN "signup"
        ELSE "product_info"

\* The financial_terms list of extract_financial_info.  The regex-extracted
\* lists (fees, percentages, phone_numbers, emails) are carried by no later
\* stage's decision and are not modelled.
extract_financial_info(content) ==
    LET lc == Lower(content)
        term(sub, tag) == IF Contains(lc, sub) THEN <<tag>> ELSE <<>>
    IN  [financial_terms |->
            term(S_cash_back, "cash_back") \o term(S_home_equity, "home_equity")
            \o term(S_heloc, "heloc") \o term(S_credit_card, "credit_card")
            \o term(S_balance_transfer, "balance_transfer")]

chunk_content(content, min_chunk_size, max_chunk_size, overlap) == <<content>>

\* Faulty variant: the except branch returns [] without printing the error
load_data_Silent(file) ==
    IF file.kind = "ok" THEN <<file.page_info, FALSE>> ELSE <<<<>>, FALSE>>

\* load_data: <<returned value, whether "Error loading data" was printed>>
load_data(file) ==
    CASE file.kind = "missing"      -> <<<<>>, TRUE>>   \* open raises
      [] file.kind = "invalid_json" -> <<<<>>, TRUE>>   \* json.load raises
      [] file.kind = "no_page_info" -> <<<<>>, TRUE>>   \* data[0]['page_info'] raises
      [] file.kind = "empty_root"   -> <<<<>>, FALSE>>  \* data is falsy
      [] file.kind = "ok"           -> <<file.page_info, FALSE>>

\* Faulty variant: the counter of the id is the chunk index inside the page
unique_id_PerPage(url, i, acc) == url \o <<"_">> \o Dec(i)

\* unique_id = f"{url}_{len(self.processed_data)}", for chunk i of a page
\* when self.processed_data is acc
unique_id(url, i, acc) == url \o <<"_">> \o Dec(Len(acc))

\* The items one filtered page appends to self.processed_data (acc).
RECURSIVE AppendChunks(_, _, _, _, _, _, _)
AppendChunks(acc, chunks, i, url, title, category, financial_info) ==
    IF i >= Len(chunks) THEN acc
    ELSE LET chunk == chunks[i + 1]
             processed_item ==
                 [id       |-> unique_id(url, i, acc),
                  content  |-> chunk,
                  metadata |-> [url            |-> url,
                                title          |-> title,
                                category       |-> category,
                                chunk_index    |-> i,
                                total_chunks   |-> Len(chunks),
                                chunk_size     |-> Len(chunk),
                                word_count     |-> WordCount(chunk),
                                financial_info |-> financial_info]]
         IN  AppendChunks(Append(acc, processed_item), chunks, i + 1,
                          url, title, category, financial_info)

MinChunkSize == 25
MaxChunkSize == 50
Overlap == 5
MinWords == 10

\* Faulty variant: the loop without the skip of content under ten words
RECURSIVE ProcessItems_NoMinimum(_, _)
ProcessItems_NoMinimum(acc, filtered) ==
    IF filtered = <<>> THEN acc
    ELSE LET item    == Head(filtered)
             url     == Get(item, "url")
             title   == Get(item, "title")
             cleaned_content == clean_content(Get(item, "content"))
         IN  ProcessItems_NoMinimum(
                AppendChunks(acc,
                             chunk_content(cleaned_content, MinChunkSize,
                                           MaxChunkSize, Overlap),
                             0, url, title,
                             categorize_content(url, title, cleaned_content),
                             extract_financial_info(cleaned_content)),
                Tail(filtered))

\* The loop of process_data over filtered_data, from self.processed_data = acc.
RECURSIVE ProcessItems(_, _)
ProcessItems(acc, filtered) ==
    IF filtered = <<>> THEN acc
    ELSE LET item    == Head(filtered)
             url     == Get(item, "url")
             title   == Get(item, "title")
             content == Get(item, "content")
             cleaned_content == clean_content(content)
         IN  IF WordCount(cleaned_content) < MinWords
             THEN ProcessItems(acc, Tail(filtered))
             ELSE ProcessItems(
                    AppendChunks(acc,
                                 chunk_content(cleaned_content, MinChunkSize,
                                               MaxChunkSize, Overlap),
                                 0, url, title,
                                 categorize_content(url, title, cleaned_content),
                                 extract_financial_info(cleaned_content)),
                    Tail(filtered))

\* process_data: the new value of self.processed_data, which it returns
process_data(acc, file) ==
    ProcessItems(acc, filter_relevant_content(load_data(file)[1]))

\* AvenDataPreprocessor.generate_summary: {} on no data
pre_generate_summary(data) ==
    IF data = <<>> THEN [k \in {} |-> 0]
    ELSE [total_chunks |-> Len(data),
          total_words  |-> SumSeq([i \in DOMAIN data |-> data[i].metadata.word_count])]

-----------------------------------------------------------------------------
(* Inputs.                                                                 *)

\* Pages that exercise each rule of the filter.
FilterPages ==
    { [url |-> U_faq,     title |-> T_faq, content |-> C_faq],
      [url |-> U_faq,     title |-> T_faq, content |-> C_blank],
      [url |-> U_faq,     title |-> T_faq, content |-> C_sentinel],
      [url |-> U_other,   title |-> T_faq, content |-> C_faq],
      [url |-> U_upper,   title |-> T_faq, content |-> C_faq],
      [url |-> U_staging, title |-> T_faq, content |-> C_faq],
      [url |-> U_STAGING, title |-> T_faq, content |-> C_faq],
      [url |-> U_crypto,  title |-> T_faq, content |-> C_faq],
      [url |-> U_faq,     title |-> <<>>,  content |-> C_faq],
      [url |-> U_pdf,     title |-> <<>>,  content |-> C_faq],
      [url |-> U_PDF,     title |-> <<>>,  content |-> C_faq],
      [title |-> T_faq, content |-> C_faq],
      [url |-> U_faq, title |-> T_faq] }

\* Pages of the input file of a preprocessor: two share a url, two share
\* their content, one is below the word minimum (the FAQ page, of 8 words),
\* one has its url and title and ten words, one is filtered out.
FilePages ==
    { [url |-> U_card,    title |-> T_card, content |-> C_ten],
      [url |-> U_card,    title |-> T_help, content |-> C_ten2],
      [url |-> U_card_1,  title |-> T_card, content |-> C_ten],
      [url |-> U_faq,     title |-> T_faq,  content |-> C_faq],
      [url |-> U_faq,     title |-> T_faq,  content |-> C_ten2],
      [url |-> U_faq,     title |-> T_help, content |-> C_tags],
      [url |-> U_staging, title |-> T_faq,  content |-> C_ten] }

FileKindsBad == {"missing", "invalid_json", "no_page_info"}

Files == {[kind |-> k, page_info |-> <<>>] : k \in FileKindsBad \cup {"empty_root"}}
         \cup {[kind |-> "ok", page_info |-> p] : p \in SeqsUpTo(FilePages, MaxFilePages)}

NoFile == [kind |-> "missing", page_info |-> <<>>]
NoSummary == [k \in {} |-> 0]

-----------------------------------------------------------------------------
(* Initial values of the parts a specification does not use.               *)
PreIdle == /\ input_file = NoFile
           /\ raw_data = <<>>
           /\ relevant_data = <<>>
           /\ ncalls = 0

EmbedIdle == /\ remote = <<>>
             /\ texts = <<>>
             /\ batch_size = 1
             /\ embeddings = <<>>
             /\ batch_embeddings = <<>>
             /\ bi = 0
             /\ bk = 0
             /\ calls = <<>>
             /\ received = <<>>
             /\ summary = NoSummary

StoreIdle == /\ collection = <<>>
             /\ records = <<>>
             /\ ins_rows = <<>>
             /\ ins_batch = 1
             /\ ins_i = 0
             /\ add_calls = <<>>
             /\ ins_result = "none"
             /\ count_after = <<>>

CallIdle == /\ call_arg = <<>>
            /\ call_result = <<>>

PipeIdle == /\ env = {}
            /\ deps_ok = TRUE
            /\ argv_help = FALSE
            /\ log = <<>>
            /\ failed_at = "none"
            /\ success = "none"
            /\ exit_status = -1

-----------------------------------------------------------------------------
(* SpecFilter: filter_relevant_content applied once to a page list.        *)
InitFilter == /\ raw_data \in SeqsUpTo(FilterPages, MaxPages)
              /\ input_file = NoFile
              /\ processed_data = <<>>
              /\ relevant_data = <<>>
              /\ ncalls = 0
              /\ pc = "filter"
              /\ EmbedIdle /\ StoreIdle /\ PipeIdle /\ CallIdle

FilterCall == /\ pc = "filter"
              /\ relevant_data' = filter_relevant_content(raw_data)
              /\ ncalls' = ncalls + 1
              /\ pc' = "filtered"
              /\ UNCHANGED callVars
              /\ UNCHANGED <<input_file, processed_data, raw_data>>
              /\ UNCHANGED <<embedVars, storeVars, pipeVars>>

NextFilter == FilterCall

SpecFilter == InitFilter /\ [][NextFilter]_vars

-----------------------------------------------------------------------------
(* SpecPre: one AvenDataPreprocessor; process_data is called repeatedly.   *)
InitPre == /\ input_file \in Files
           /\ processed_data = <<>>
           /\ raw_data = <<>>
           /\ relevant_data = <<>>
           /\ ncalls = 0
           /\ pc = "pre"
           /\ EmbedIdle /\ StoreIdle /\ PipeIdle /\ CallIdle

ProcessDataCall ==
    /\ pc = "pre"
    /\ ncalls < MaxCalls
    /\ raw_data' = load_data(input_file)[1]
    /\ relevant_data' = filter_relevant_content(raw_data')
    /\ processed_data' = process_data(processed_data, input_file)
    /\ ncalls' = ncalls + 1
    /\ UNCHANGED callVars
    /\ UNCHANGED <<input_file, pc>>
    /\ UNCHANGED <<embedVars, storeVars, pipeVars>>

\* Files the crawler may put in place of the input file between two calls.
RewriteFiles ==
    { [kind |-> "missing", page_info |-> <<>>],
      [kind |-> "ok", page_info |-> << [url |-> U_card, title |-> T_card, content |-> C_ten] >>],
      [kind |-> "ok", page_info |-> << [url |-> U_card, title |-> T_help, content |-> C_ten2] >>] }

\* the file self.input_file names is replaced before the next open()
FileRewritten ==
    /\ pc = "pre"
    /\ ncalls < MaxCalls
    /\ input_file' \in RewriteFiles \ {input_file}
    /\ UNCHANGED callVars
    /\ UNCHANGED <<processed_data, raw_data, relevant_data, ncalls, pc>>
    /\ UNCHANGED <<embedVars, storeVars, pipeVars>>

NextPre == ProcessDataCall \/ FileRewritten

SpecPre == InitPre /\ [][NextPre]_vars

-----------------------------------------------------------------------------
(* SpecClean: clean_content applied to a string, then to its own result.   *)

MaxCleanLen == 4

\* a letter, two kinds of whitespace, a removed character and the tag brackets
CleanChars == {"a", " ", "\n", "@", "<", ">"}

X_spaced == <<"a"," ","@"," ","b">>
X_tagged == <<"a"," ","<","b",">"," ","c">>
X_kept   == <<"a"," ","b",".">>

CleanInputs == SeqsUpTo(CleanChars, MaxCleanLen)
               \cup {X_spaced, X_tagged, X_kept, C_tags, C_ten2, C_faq, C_blank}

InitClean == /\ call_arg \in CleanInputs
             /\ call_result = <<>>
             /\ pc = "clean"
             /\ processed_data = <<>>
             /\ PreIdle /\ EmbedIdle /\ StoreIdle /\ PipeIdle

\* clean_content(x) first, clean_content of the value just returned next
CleanContentCall ==
    /\ pc = "clean"
    /\ Len(call_result) < 2
    /\ call_result' = Append(call_result,
                             clean_content(IF call_result = <<>> THEN call_arg
                                           ELSE call_result[Len(call_result)]))
    /\ UNCHANGED <<call_arg, pc>>
    /\ UNCHANGED <<preVars, embedVars, storeVars, pipeVars>>

NextClean == CleanContentCall

SpecClean == InitClean /\ [][NextClean]_vars

-----------------------------------------------------------------------------
(* SpecChunk: chunk_content called once.                                   *)

\* (min_chunk_size, max_chunk_size, overlap): the defaults, which are also
\* what run_pipeline passes, and small sizes
ChunkSizes == { <<MinChunkSize, MaxChunkSize, Overlap>>, <<1, 2, 0>> }

InitChunk == /\ \E content \in CleanInputs, sizes \in ChunkSizes :
                   call_arg = [content        |-> content,
                               min_chunk_size |-> sizes[1],
                               max_chunk_size |-> sizes[2],
                               overlap        |-> sizes[3]]
             /\ call_result = <<>>
             /\ pc = "chunk"
             /\ processed_data = <<>>
             /\ PreIdle /\ EmbedIdle /\ StoreIdle /\ PipeIdle

ChunkContentCall ==
    /\ pc = "chunk"
    /\ call_result' = chunk_content(call_arg.content, call_arg.min_chunk_size,
                                    call_arg.max_chunk_size, call_arg.overlap)
    /\ pc' = "chunked"
    /\ UNCHANGED call_arg
    /\ UNCHANGED <<preVars, embedVars, storeVars, pipeVars>>

NextChunk == ChunkContentCall

SpecChunk == InitChunk /\ [][NextChunk]_vars

-----------------------------------------------------------------------------
(* SpecCategorize: categorize_content called once on a (url, title) pair.  *)

MaxFragments == 2

F_SUPPORT   == <<"S","U","P","P","O","R","T">>
F_slash     == <<"/">>
T_education == <<"E","d","u","c","a","t","i","o","n">>
T_privacy   == <<"P","r","i","v","a","c","y">>
T_support   == <<"S","u","p","p","o","r","t">>
T_join      == <<"J","o","i","n">>

\* the keywords of the rules, one of them in upper case, and a separator
UrlFragments == {S_education, S_support, S_help, S_docs, S_dot_pdf, S_privacy,
                 S_login, S_my_aven, S_join, F_SUPPORT, F_slash}

RECURSIVE Join(_)
Join(parts) == IF parts = <<>> THEN <<>> ELSE Head(parts) \o Join(Tail(parts))

\* urls: up to MaxFragments fragments one after the other, the empty url included
CategorizeUrls == {Join(parts) : parts \in SeqsUpTo(UrlFragments, MaxFragments)}

CategorizeTitles == {<<>>, T_faq, T_help, T_education, T_privacy, T_support, T_join}

InitCategorize == /\ \E url \in CategorizeUrls, title \in CategorizeTitles :
                        call_arg = [url |-> url, title |-> title, content |-> <<>>]
                  /\ call_result = <<>>
                  /\ pc = "categorize"
                  /\ processed_data = <<>>
                  /\ PreIdle /\ EmbedIdle /\ StoreIdle /\ PipeIdle

CategorizeContentCall ==
    /\ pc = "categorize"
    /\ call_result' = <<categorize_content(call_arg.url, call_arg.title, call_arg.content)>>
    /\ pc' = "categorized"
    /\ UNCHANGED call_arg
    /\ UNCHANGED <<preVars, embedVars, storeVars, pipeVars>>

NextCategorize == CategorizeContentCall

SpecCategorize == InitCategorize /\ [][NextCategorize]_vars

-----------------------------------------------------------------------------
(* gemini_embedding_generator.py                                           *)

\* The vector genai.embed_content returns for a text when it succeeds: an
\* opaque value that identifies the text it was computed for.
remote_embedding(text) == <<"vector of", text>>

\* How the remote answers the calls for one text: every call succeeds,
\* every call raises, or each call independently does either.
RemoteModes == {"ok", "fail", "flaky"}

Min(a, b) == IF a <= b THEN a ELSE b

\* An outward action of the program, tagged with the step of run_pipeline
\* (1..5) whose code performs it.
Event(stage, what) == [stage |-> stage, ev |-> what, file |-> ""]

\* batch = texts[i:i + batch_size]; its length and its k-th text (0-based)
BatchLen == Min(batch_size, Len(texts) - bi)
BatchIndex == bi + bk + 1
BatchText == texts[BatchIndex]

RemoteCalled == /\ calls' = [calls EXCEPT ![BatchIndex] = @ + 1]
                /\ log' = Append(log, Event(3, "embed_call"))

\* process_data_with_embeddings, up to the call of generate_embeddings_batch
ProcessDataWithEmbeddingsCall ==
    /\ pc = "pdwe"
    /\ received' = processed_data
    /\ texts' = [i \in DOMAIN processed_data |-> processed_data[i].content]
    /\ embeddings' = <<>>
    /\ batch_embeddings' = <<>>
    /\ bi' = 0
    /\ bk' = 0
    /\ calls' = [i \in DOMAIN processed_data |-> 0]
    /\ pc' = "batch_loop"
    /\ UNCHANGED callVars
    /\ UNCHANGED <<remote, batch_size, summary, log>>
    /\ UNCHANGED <<preVars, storeVars>>
    /\ UNCHANGED <<env, deps_ok, argv_help, failed_at, success, exit_status>>

engineFrame == /\ UNCHANGED <<callVars, remote, texts, batch_size, received, summary>>
               /\ UNCHANGED <<preVars, storeVars>>
               /\ UNCHANGED <<env, deps_ok, argv_help, failed_at, success, exit_status>>

\* for i in range(0, len(texts), batch_size): the next batch begins
BatchStart ==
    /\ pc = "batch_loop"
    /\ bi < Len(texts)
    /\ batch_embeddings' = <<>>
    /\ bk' = 0
    /\ pc' = "first_pass"
    /\ UNCHANGED <<embeddings, bi, calls, log>>
    /\ engineFrame

\* first pass: embed_content succeeds for the next text of the batch
FirstPassCallOk ==
    /\ pc = "first_pass"
    /\ bk < BatchLen
    /\ remote[BatchText] # "fail"
    /\ RemoteCalled
    /\ batch_embeddings' = Append(batch_embeddings, remote_embedding(BatchText))
    /\ bk' = bk + 1
    /\ UNCHANGED <<embeddings, bi, pc>>
    /\ engineFrame

\* Faulty variant: the except branch keeps the vectors of the abandoned first pass
FirstPassCallRaises_KeepsPartial ==
    /\ pc = "first_pass"
    /\ bk < BatchLen
    /\ remote[BatchText] # "ok"
    /\ RemoteCalled
    /\ embeddings' = embeddings \o batch_embeddings
    /\ bk' = 0
    /\ pc' = "retry"
    /\ UNCHANGED <<batch_embeddings, bi>>
    /\ engineFrame

\* Faulty variant: the except branch keeps the vectors obtained so far and
\* retries from the failed text on
FirstPassCallRaises_ResumeAtFailure ==
    /\ pc = "first_pass"
    /\ bk < BatchLen
    /\ remote[BatchText] # "ok"
    /\ RemoteCalled
    /\ embeddings' = embeddings \o batch_embeddings
    /\ pc' = "retry"
    /\ UNCHANGED <<batch_embeddings, bi, bk>>
    /\ engineFrame

\* first pass: embed_content raises; the except branch starts the retries
\* and batch_embeddings is never added to embeddings
FirstPassCallRaises ==
    /\ pc = "first_pass"
    /\ bk < BatchLen
    /\ remote[BatchText] # "ok"
    /\ RemoteCalled
    /\ bk' = 0
    /\ pc' = "retry"
    /\ UNCHANGED <<embeddings, batch_embeddings, bi>>
    /\ engineFrame

\* embeddings.extend(batch_embeddings) after a first pass without failure
BatchCommit ==
    /\ pc = "first_pass"
    /\ bk = BatchLen
    /\ embeddings' = embeddings \o batch_embeddings
    /\ bi' = bi + batch_size
    /\ pc' = "batch_loop"
    /\ UNCHANGED <<batch_embeddings, bk, calls, log>>
    /\ engineFrame

\* retry: generate_embedding(text) returns the remote's vector
RetryCallOk ==
    /\ pc = "retry"
    /\ bk < BatchLen
    /\ remote[BatchText] # "fail"
    /\ RemoteCalled
    /\ embeddings' = Append(embeddings, remote_embedding(BatchText))
    /\ bk' = bk + 1
    /\ UNCHANGED <<batch_embeddings, bi, pc>>
    /\ engineFrame

\* Faulty variant: a failed retry appends nothing
RetryCallFails_NoSlot ==
    /\ pc = "retry"
    /\ bk < BatchLen
    /\ remote[BatchText] # "ok"
    /\ RemoteCalled
    /\ bk' = bk + 1
    /\ UNCHANGED <<embeddings, batch_embeddings, bi, pc>>
    /\ engineFrame

\* retry: generate_embedding(text) catches the exception and returns []
RetryCallFails ==
    /\ pc = "retry"
    /\ bk < BatchLen
    /\ remote[BatchText] # "ok"
    /\ RemoteCalled
    /\ embeddings' = Append(embeddings, <<>>)
    /\ bk' = bk + 1
    /\ UNCHANGED <<batch_embeddings, bi, pc>>
    /\ engineFrame

\* the retry loop of the batch is over
RetryDone ==
    /\ pc = "retry"
    /\ bk = BatchLen
    /\ bi' = bi + batch_size
    /\ pc' = "batch_loop"
    /\ UNCHANGED <<embeddings, batch_embeddings, bk, calls, log>>
    /\ engineFrame

\* return embeddings
GenerateEmbeddingsBatchReturn ==
    /\ pc = "batch_loop"
    /\ bi >= Len(texts)
    /\ pc' = "attach"
    /\ UNCHANGED <<embeddings, batch_embeddings, bi, bk, calls, log>>
    /\ engineFrame

ModelName == "models/embedding-001"

\* the loop of process_data_with_embeddings that sets the embedding fields
\* of the items of processed_data (the list it was given) in place
AttachEmbeddings(data, embs) ==
    [i \in DOMAIN data |->
        IF i <= Len(embs)
        THEN [embedding           |-> embs[i],
              embedding_model     |-> ModelName,
              embedding_dimension |-> Len(embs[i])] @@ data[i]
        ELSE data[i]]

ProcessDataWithEmbeddingsReturn ==
    /\ pc = "attach"
    /\ processed_data' = AttachEmbeddings(processed_data, embeddings)
    /\ pc' = "pdwe_returned"
    /\ UNCHANGED callVars
    /\ UNCHANGED <<input_file, raw_data, relevant_data, ncalls>>
    /\ UNCHANGED <<embedVars, storeVars, pipeVars>>

HasEmbedding(item) == "embedding" \in DOMAIN item

\* GeminiEmbeddingGenerator.generate_summary; the rate is kept as the
\* fraction num / den it is computed from
generate_summary(data) ==
    IF data = <<>> THEN NoSummary
    ELSE LET total_items == Len(data)
             items_with_embeddings ==
                 Cardinality({i \in DOMAIN data : HasEmbedding(data[i])})
             embedding_dimensions ==
                 SelectSeq([i \in DOMAIN data |->
                              IF HasEmbedding(data[i]) THEN Len(data[i].embedding) ELSE -1],
                           LAMBDA d : d >= 0)
             cats == {data[i].metadata.category : i \in DOMAIN data}
         IN  [total_items            |-> total_items,
              items_with_embeddings  |-> items_with_embeddings,
              embedding_success_rate |-> [num |-> items_with_embeddings,
                                          den |-> total_items],
              embedding_dimension    |-> IF embedding_dimensions # <<>>
                                         THEN embedding_dimensions[1] ELSE 0,
              model_used             |-> ModelName,
              categories             |->
                  [c \in cats |-> Cardinality({i \in DOMAIN data :
                                                  data[i].metadata.category = c})]]

EngineNext ==
    \/ ProcessDataWithEmbeddingsCall
    \/ BatchStart
    \/ FirstPassCallOk
    \/ FirstPassCallRaises
    \/ BatchCommit
    \/ RetryCallOk
    \/ RetryCallFails
    \/ RetryDone
    \/ GenerateEmbeddingsBatchReturn
    \/ ProcessDataWithEmbeddingsReturn

-----------------------------------------------------------------------------
(* SpecEmbed: process_data_with_embeddings on a list of processed items,   *)
(* with any batch size and any behaviour of the remote; generate_summary   *)
(* on its result.                                                          *)

\* Items as process_data produces them; two of them have the same content.
ItemPool ==
    Range(process_data(<<>>,
        [kind |-> "ok",
         page_info |-> << [url |-> U_card,   title |-> T_card, content |-> C_ten],
                          [url |-> U_card,   title |-> T_help, content |-> C_ten2],
                          [url |-> U_card_1, title |-> T_card, content |-> C_ten],
                          [url |-> U_faq,    title |-> T_help, content |-> C_tags] >>]))

\* lists without repeated items
ItemLists(n) == {s \in SeqsUpTo(ItemPool, n) :
                    \A i, j \in DOMAIN s : i # j => s[i] # s[j]}

InitEmbed ==
    /\ PreIdle /\ StoreIdle /\ PipeIdle /\ CallIdle
    /\ \E data \in ItemLists(MaxItems) :
          /\ processed_data = data
          /\ remote \in [{data[i].content : i \in DOMAIN data} -> RemoteModes]
    /\ batch_size \in 1..MaxBatch
    /\ texts = <<>>
    /\ embeddings = <<>>
    /\ batch_embeddings = <<>>
    /\ bi = 0
    /\ bk = 0
    /\ calls = <<>>
    /\ received = <<>>
    /\ summary = NoSummary
    /\ pc = "pdwe"

GenerateSummaryCall ==
    /\ pc = "pdwe_returned"
    /\ summary' = generate_summary(processed_data)
    /\ pc' = "summarised"
    /\ UNCHANGED callVars
    /\ UNCHANGED <<remote, texts, batch_size, embeddings, batch_embeddings,
                   bi, bk, calls, received>>
    /\ UNCHANGED <<preVars, storeVars, pipeVars>>

NextEmbed == EngineNext \/ GenerateSummaryCall

SpecEmbed == InitEmbed /\ [][NextEmbed]_vars

\* The calls are the steps of one sequential program and every remote call
\* returns or raises: a step that can be taken is taken.
SpecEmbedLive == SpecEmbed /\ WF_vars(NextEmbed)

-----------------------------------------------------------------------------
(* chromadb_integration.py                                                 *)

CollectionName == "aven_financial_products"

\* the parallel lists ids, documents, metadatas built from processed_data,
\* kept as one list of rows
InsertRows(data) ==
    [i \in DOMAIN data |->
        [id       |-> data[i].id,
         document |-> data[i].content,
         metadata |-> [url        |-> data[i].metadata.url,
                       title      |-> data[i].metadata.title,
                       category   |-> data[i].metadata.category,
                       word_count |-> data[i].metadata.word_count]]]

\* ids[i:i+batch_size] and its companions (i is 0-based)
Slice(rows, i, n) == SubSeq(rows, i + 1, Min(i + n, Len(rows)))

RowIds(rows) == [i \in DOMAIN rows |-> rows[i].id]

\* The store after a successful collection.add(ids, documents, metadatas):
\* the collection is keyed by id, a row whose id it already holds is left
\* as it is and the others are inserted.
StoreAdd(coll, rows) ==
    LET new == {rows[i].id : i \in DOMAIN rows} \ DOMAIN coll
    IN  [id \in DOMAIN coll \cup new |->
            IF id \in DOMAIN coll THEN coll[id]
            ELSE LET i == CHOOSE i \in DOMAIN rows : rows[i].id = id
                 IN  [document |-> rows[i].document, metadata |-> rows[i].metadata]]

\* Faulty variant: the ids are made anew by every call instead of taken from the items
InsertCall_FreshIds ==
    /\ pc = "insert"
    /\ ins_rows' = [i \in DOMAIN records |->
                      [InsertRows(records)[i] EXCEPT
                          !.id = @ \o <<"#">> \o Dec(ncalls)]]
    /\ ins_i' = 0
    /\ add_calls' = <<>>
    /\ ins_result' = "running"
    /\ pc' = "adding"
    /\ UNCHANGED callVars
    /\ UNCHANGED <<collection, records, ins_batch, count_after>>
    /\ UNCHANGED <<preVars, embedVars, pipeVars>>

\* insert_data_into_chroma, up to its batch loop
InsertCall ==
    /\ pc = "insert"
    /\ ins_rows' = InsertRows(records)
    /\ ins_i' = 0
    /\ add_calls' = <<>>
    /\ ins_result' = "running"
    /\ pc' = "adding"
    /\ UNCHANGED callVars
    /\ UNCHANGED <<collection, records, ins_batch, count_after>>
    /\ UNCHANGED <<preVars, embedVars, pipeVars>>

\* collection.add succeeds for the batch at ins_i
AddOk ==
    /\ pc = "adding"
    /\ ins_i < Len(ins_rows)
    /\ collection' = StoreAdd(collection, Slice(ins_rows, ins_i, ins_batch))
    /\ add_calls' = Append(add_calls,
                           [ids |-> RowIds(Slice(ins_rows, ins_i, ins_batch)), ok |-> TRUE])
    /\ ins_i' = ins_i + ins_batch
    /\ log' = Append(log, Event(5, "store_add"))
    /\ UNCHANGED callVars
    /\ UNCHANGED <<records, ins_rows, ins_batch, ins_result, count_after, pc>>
    /\ UNCHANGED <<preVars, embedVars>>
    /\ UNCHANGED <<env, deps_ok, argv_help, failed_at, success, exit_status>>

\* Faulty variant: a failed add is skipped and the loop goes on with the next batch
AddRaises_Swallowed ==
    /\ pc = "adding"
    /\ ins_i < Len(ins_rows)
    /\ add_calls' = Append(add_calls,
                           [ids |-> RowIds(Slice(ins_rows, ins_i, ins_batch)), ok |-> FALSE])
    /\ ins_i' = ins_i + ins_batch
    /\ log' = Append(log, Event(5, "store_add"))
    /\ UNCHANGED callVars
    /\ UNCHANGED <<collection, records, ins_rows, ins_batch, ins_result, count_after, pc>>
    /\ UNCHANGED <<preVars, embedVars>>
    /\ UNCHANGED <<env, deps_ok, argv_help, failed_at, success, exit_status>>

\* collection.add raises for the batch at ins_i: nothing of the batch is
\* stored and the exception leaves insert_data_into_chroma
AddRaises ==
    /\ pc = "adding"
    /\ ins_i < Len(ins_rows)
    /\ add_calls' = Append(add_calls,
                           [ids |-> RowIds(Slice(ins_rows, ins_i, ins_batch)), ok |-> FALSE])
    /\ ins_result' = "raised"
    /\ log' = Append(log, Event(5, "store_add"))
    /\ pc' = "insert_raised"
    /\ UNCHANGED callVars
    /\ UNCHANGED <<collection, records, ins_rows, ins_batch, ins_i, count_after>>
    /\ UNCHANGED <<preVars, embedVars>>
    /\ UNCHANGED <<env, deps_ok, argv_help, failed_at, success, exit_status>>

\* the batch loop is over: insert_data_into_chroma returns
InsertReturns ==
    /\ pc = "adding"
    /\ ins_i >= Len(ins_rows)
    /\ ins_result' = "returned"
    /\ pc' = "insert_returned"
    /\ UNCHANGED callVars
    /\ UNCHANGED <<collection, records, ins_rows, ins_batch, ins_i, add_calls, count_after>>
    /\ UNCHANGED <<preVars, embedVars, pipeVars>>

\* get_collection_stats when count() and get() succeed; {} when they raise
get_collection_stats(coll) ==
    LET cats == {coll[id].metadata.category : id \in DOMAIN coll}
    IN  [total_items     |-> Cardinality(DOMAIN coll),
         categories      |-> [c \in cats |->
                                Cardinality({id \in DOMAIN coll :
                                                coll[id].metadata.category = c})],
         collection_name |-> CollectionName]

InsertNext == InsertCall \/ AddOk \/ AddRaises \/ InsertReturns

-----------------------------------------------------------------------------
(* SpecStore: insert_data_into_chroma called repeatedly with the same      *)
(* records on one collection, get_collection_stats after every call.       *)
InitStore ==
    /\ PreIdle /\ EmbedIdle /\ PipeIdle /\ CallIdle
    /\ processed_data = <<>>
    /\ records \in ItemLists(MaxRecords)
    /\ ins_batch \in 1..MaxBatch
    /\ collection = <<>>
    /\ ins_rows = <<>>
    /\ ins_i = 0
    /\ add_calls = <<>>
    /\ ins_result = "none"
    /\ count_after = <<>>
    /\ pc = "insert"

StatsAfterInsert ==
    /\ pc \in {"insert_returned", "insert_raised"}
    /\ \E stats \in {get_collection_stats(collection), NoSummary} :
          count_after' = Append(count_after, [result |-> ins_result, stats |-> stats])
    /\ ncalls' = ncalls + 1
    /\ pc' = IF ncalls + 1 < MaxCalls THEN "insert" ELSE "store_done"
    /\ UNCHANGED callVars
    /\ UNCHANGED <<input_file, processed_data, raw_data, relevant_data>>
    /\ UNCHANGED <<collection, records, ins_rows, ins_batch, ins_i, add_calls, ins_result>>
    /\ UNCHANGED <<embedVars, pipeVars>>

NextStore == InsertNext \/ StatsAfterInsert

SpecStore == InitStore /\ [][NextStore]_vars

-----------------------------------------------------------------------------
(* Claims about the vector store adapter.                                  *)

NumBatches == (Len(ins_rows) + ins_batch - 1) \div ins_batch
FailedAdds == {k \in DOMAIN add_calls : ~add_calls[k].ok}
Committed(k) == \A i \in DOMAIN add_calls[k].ids : add_calls[k].ids[i] \in DOMAIN collection

\* C3: insert_data_into_chroma issues one add call per consecutive batch of
\* at most batch_size records, in input order; when the add call for batch
\* k fails the failure reaches the caller, batches 1..k-1 stay committed and
\* no add call for a batch after k is issued.
C3_BatchesAndFailure ==
    /\ pc \in {"adding", "insert_returned", "insert_raised"} =>
          /\ Len(add_calls) <= NumBatches
          /\ \A k \in DOMAIN add_calls :
                add_calls[k].ids = RowIds(Slice(ins_rows, (k - 1) * ins_batch, ins_batch))
    /\ pc = "insert_returned" => (FailedAdds = {} /\ Len(add_calls) = NumBatches)
    /\ pc \in {"adding", "insert_returned"} => FailedAdds = {}
    /\ pc = "insert_raised" =>
          /\ ins_result = "raised"
          /\ FailedAdds = {Len(add_calls)}
          /\ \A k \in 1..(Len(add_calls) - 1) : Committed(k)

\* The first call on an empty collection, three records in batches of one:
\* the second add failed, the first record is stored, the third was never
\* sent.
C3_Witness ==
    /\ pc = "insert_raised"
    /\ ncalls = 0
    /\ Len(ins_rows) = 3
    /\ ins_batch = 1
    /\ Len(add_calls) = 2
    /\ DOMAIN collection = {ins_rows[1].id}

StatsKnown(k) == count_after[k].stats # NoSummary

\* C4: inserting the same records again after an insert that returned does
\* not change total_items of get_collection_stats.
C4_ReinsertKeepsTotal ==
    \A k \in DOMAIN count_after :
        (k >= 2 /\ count_after[k - 1].result = "returned"
                /\ StatsKnown(k - 1) /\ StatsKnown(k)) =>
            count_after[k].stats.total_items = count_after[k - 1].stats.total_items

\* Two inserts of the same three records returned and both counts are 3.
C4_Witness ==
    /\ Len(count_after) >= 2
    /\ count_after[1].result = "returned"
    /\ count_after[2].result = "returned"
    /\ StatsKnown(1) /\ StatsKnown(2)
    /\ count_after[1].stats.total_items = 3
    /\ count_after[2].stats.total_items = 3

-----------------------------------------------------------------------------
(* main_pipeline.py                                                        *)

PipelineEmbedBatch == 50
PipelineStoreBatch == 10

\* run_pipeline returns False from the step named by stage
ReturnFalse(stage) == /\ failed_at' = stage
                      /\ success' = "False"
                      /\ pc' = "returned"

\* main() with --help: prints the usage and returns
MainHelp ==
    /\ pc = "main"
    /\ argv_help
    /\ exit_status' = 0
    /\ pc' = "exited"
    /\ UNCHANGED callVars
    /\ UNCHANGED <<env, deps_ok, argv_help, log, failed_at, success>>
    /\ UNCHANGED <<preVars, embedVars, storeVars>>

\* main() calls run_pipeline()
MainRun ==
    /\ pc = "main"
    /\ ~argv_help
    /\ pc' = "check_dependencies"
    /\ UNCHANGED callVars
    /\ UNCHANGED <<pipeVars, preVars, embedVars, storeVars>>

\* step 1: if not check_dependencies(): return False
CheckDependencies ==
    /\ pc = "check_dependencies"
    /\ IF deps_ok
       THEN /\ pc' = "check_api_key"
            /\ UNCHANGED <<log, failed_at, success>>
       ELSE /\ log' = Append(log, Event(1, "Missing required packages"))
            /\ ReturnFalse("checks")
    /\ UNCHANGED callVars
    /\ UNCHANGED <<env, deps_ok, argv_help, exit_status>>
    /\ UNCHANGED <<preVars, embedVars, storeVars>>

\* step 1: if not check_api_key(): return False
CheckApiKey ==
    /\ pc = "check_api_key"
    /\ IF "GOOGLE_API_KEY" \in env
       THEN /\ log' = Append(log, Event(1, "ok"))
            /\ pc' = "preprocessing"
            /\ UNCHANGED <<failed_at, success>>
       ELSE /\ log' = Append(log, Event(1, "GOOGLE_API_KEY not set"))
            /\ ReturnFalse("checks")
    /\ UNCHANGED callVars
    /\ UNCHANGED <<env, deps_ok, argv_help, exit_status>>
    /\ UNCHANGED <<preVars, embedVars, storeVars>>

\* The outcomes of a file write inside save_processed_data or
\* save_embeddings: both catch the exception and print it.
WriteEvents(stage, file) == {[stage |-> stage, ev |-> "write", file |-> file],
                             [stage |-> stage, ev |-> "write failed", file |-> file]}

\* step 2: a new preprocessor, process_data, save_processed_data,
\* generate_summary; summary['total_chunks'] raises on the empty summary
Preprocessing ==
    /\ pc = "preprocessing"
    /\ raw_data' = load_data(input_file)[1]
    /\ relevant_data' = filter_relevant_content(raw_data')
    /\ processed_data' = process_data(<<>>, input_file)
    /\ \E w \in WriteEvents(2, "aven_processed_data.json") :
          LET printed == <<Event(2, "process_data")>>
                         \o (IF load_data(input_file)[2]
                             THEN <<Event(2, "Error loading data")>> ELSE <<>>)
                         \o <<w>>
          IN  IF pre_generate_summary(processed_data') = NoSummary
              THEN /\ log' = log \o printed \o <<Event(2, "error")>>
                   /\ ReturnFalse("preprocessing")
              ELSE /\ log' = log \o printed \o <<Event(2, "ok")>>
                   /\ pc' = "embedding"
                   /\ UNCHANGED <<failed_at, success>>
    /\ UNCHANGED callVars
    /\ UNCHANGED <<input_file, ncalls>>
    /\ UNCHANGED <<env, deps_ok, argv_help, exit_status>>
    /\ UNCHANGED <<embedVars, storeVars>>

\* step 3: GeminiEmbeddingGenerator(), then
\* process_data_with_embeddings(processed_data, batch_size=50); the remote
\* answers each text in one of its modes
EmbeddingStart ==
    /\ pc = "embedding"
    /\ IF "GOOGLE_API_KEY" \in env
       THEN /\ batch_size' = PipelineEmbedBatch
            /\ remote' \in [{processed_data[i].content : i \in DOMAIN processed_data}
                               -> RemoteModes]
            /\ pc' = "pdwe"
            /\ UNCHANGED <<log, failed_at, success>>
       ELSE /\ log' = Append(log, Event(3, "error"))
            /\ ReturnFalse("embedding")
            /\ UNCHANGED <<batch_size, remote>>
    /\ UNCHANGED callVars
    /\ UNCHANGED <<texts, embeddings, batch_embeddings, bi, bk, calls, received, summary>>
    /\ UNCHANGED <<env, deps_ok, argv_help, exit_status>>
    /\ UNCHANGED <<preVars, storeVars>>

\* step 3: save_embeddings, generate_summary and the prints of its fields
EmbeddingFinish ==
    /\ pc = "pdwe_returned"
    /\ summary' = generate_summary(processed_data)
    /\ \E w \in WriteEvents(3, "aven_embeddings_data.json") :
          IF summary' = NoSummary
          THEN /\ log' = log \o <<w, Event(3, "error")>>
               /\ ReturnFalse("embedding")
          ELSE /\ log' = log \o <<w, Event(3, "ok")>>
               /\ pc' = "storage"
               /\ UNCHANGED <<failed_at, success>>
    /\ UNCHANGED callVars
    /\ UNCHANGED <<remote, texts, batch_size, embeddings, batch_embeddings,
                   bi, bk, calls, received>>
    /\ UNCHANGED <<env, deps_ok, argv_help, exit_status>>
    /\ UNCHANGED <<preVars, storeVars>>

\* Faulty variant: the except branch of step 4 prints the error and goes on
Storage_NoReturn ==
    /\ pc = "storage"
    /\ \E w \in WriteEvents(4, "aven_embeddings_detailed.json") :
          \/ /\ log' = log \o <<w, [stage |-> 4, ev |-> "write", file |-> "embeddings_summary.json"],
                                Event(4, "ok")>>
             /\ pc' = "chromadb"
             /\ UNCHANGED <<failed_at, success>>
          \/ /\ log' = log \o <<w, Event(4, "error")>>
             /\ failed_at' = "storage"
             /\ pc' = "chromadb"
             /\ UNCHANGED success
    /\ UNCHANGED callVars
    /\ UNCHANGED <<env, deps_ok, argv_help, exit_status>>
    /\ UNCHANGED <<preVars, embedVars, storeVars>>

\* step 4: save_embeddings again, then the summary file, whose open or
\* json.dump may raise into the except branch of the step
Storage ==
    /\ pc = "storage"
    /\ \E w \in WriteEvents(4, "aven_embeddings_detailed.json") :
          \/ /\ log' = log \o <<w, [stage |-> 4, ev |-> "write", file |-> "embeddings_summary.json"],
                                Event(4, "ok")>>
             /\ pc' = "chromadb"
             /\ UNCHANGED <<failed_at, success>>
          \/ /\ log' = log \o <<w, Event(4, "error")>>
             /\ ReturnFalse("storage")
    /\ UNCHANGED callVars
    /\ UNCHANGED <<env, deps_ok, argv_help, exit_status>>
    /\ UNCHANGED <<preVars, embedVars, storeVars>>

\* step 5: AvenChromaDBIntegration() raises ValueError without
\* CHROMA_API_KEY; the except branch of the step prints it
ChromaKeyMissing ==
    /\ pc = "chromadb"
    /\ "CHROMA_API_KEY" \notin env
    /\ log' = log \o <<Event(5, "CHROMA_API_KEY not found"), Event(5, "error")>>
    /\ ReturnFalse("chromadb")
    /\ UNCHANGED callVars
    /\ UNCHANGED <<env, deps_ok, argv_help, exit_status>>
    /\ UNCHANGED <<preVars, embedVars, storeVars>>

\* step 5: chromadb.CloudClient or get_or_create_collection raises
ChromaConnectRaises ==
    /\ pc = "chromadb"
    /\ "CHROMA_API_KEY" \in env
    /\ "GOOGLE_API_KEY" \in env
    /\ log' = log \o <<Event(5, "connect"), Event(5, "error")>>
    /\ ReturnFalse("chromadb")
    /\ UNCHANGED callVars
    /\ UNCHANGED <<env, deps_ok, argv_help, exit_status>>
    /\ UNCHANGED <<preVars, embedVars, storeVars>>

\* Faulty variant: only the items with a non-empty embedding are handed to
\* insert_data_into_chroma
ChromaInsert_SkipsEmpty ==
    /\ pc = "chromadb"
    /\ "CHROMA_API_KEY" \in env
    /\ "GOOGLE_API_KEY" \in env
    /\ log' = Append(log, Event(5, "connect"))
    /\ records' = SelectSeq(processed_data, LAMBDA item : item.embedding # <<>>)
    /\ ins_batch' = PipelineStoreBatch
    /\ pc' = "insert"
    /\ UNCHANGED callVars
    /\ UNCHANGED <<collection, ins_rows, ins_i, add_calls, ins_result, count_after>>
    /\ UNCHANGED <<env, deps_ok, argv_help, failed_at, success, exit_status>>
    /\ UNCHANGED <<preVars, embedVars>>

\* step 5: connected; insert_data_into_chroma(collection,
\* data_with_embeddings, batch_size=10)
ChromaInsert ==
    /\ pc = "chromadb"
    /\ "CHROMA_API_KEY" \in env
    /\ "GOOGLE_API_KEY" \in env
    /\ log' = Append(log, Event(5, "connect"))
    /\ records' = processed_data
    /\ ins_batch' = PipelineStoreBatch
    /\ pc' = "insert"
    /\ UNCHANGED callVars
    /\ UNCHANGED <<collection, ins_rows, ins_i, add_calls, ins_result, count_after>>
    /\ UNCHANGED <<env, deps_ok, argv_help, failed_at, success, exit_status>>
    /\ UNCHANGED <<preVars, embedVars>>

\* step 5: the exception of a failed add reaches the except branch
ChromaInsertRaised ==
    /\ pc = "insert_raised"
    /\ log' = Append(log, Event(5, "error"))
    /\ ReturnFalse("chromadb")
    /\ UNCHANGED callVars
    /\ UNCHANGED <<env, deps_ok, argv_help, exit_status>>
    /\ UNCHANGED <<preVars, embedVars, storeVars>>

\* step 5: get_collection_stats and query_collection (both catch their
\* exceptions), the prints, return True
ChromaFinish ==
    /\ pc = "insert_returned"
    /\ \E stats \in {get_collection_stats(collection), NoSummary} :
          count_after' = Append(count_after, [result |-> ins_result, stats |-> stats])
    /\ log' = log \o <<Event(5, "query"), Event(5, "ok")>>
    /\ success' = "True"
    /\ pc' = "returned"
    /\ UNCHANGED callVars
    /\ UNCHANGED <<collection, records, ins_rows, ins_batch, ins_i, add_calls, ins_result>>
    /\ UNCHANGED <<env, deps_ok, argv_help, failed_at, exit_status>>
    /\ UNCHANGED <<preVars, embedVars>>

\* sys.exit(0 if success else 1)
MainExit ==
    /\ pc = "returned"
    /\ exit_status' = IF success = "True" THEN 0 ELSE 1
    /\ pc' = "exited"
    /\ UNCHANGED callVars
    /\ UNCHANGED <<env, deps_ok, argv_help, log, failed_at, success>>
    /\ UNCHANGED <<preVars, embedVars, storeVars>>

\* Input files of the pipeline runs: every unreadable kind, an empty page
\* list, a page that is filtered out, a page below the word minimum, one
\* page, and two pages with the same content.
PipelineFiles ==
    {[kind |-> k, page_info |-> <<>>] : k \in FileKindsBad \cup {"empty_root"}}
    \cup {[kind |-> "ok", page_info |-> p] : p \in
            { <<>>,
              << [url |-> U_staging, title |-> T_faq, content |-> C_ten] >>,
              << [url |-> U_faq, title |-> T_faq, content |-> C_faq] >>,
              << [url |-> U_card, title |-> T_card, content |-> C_ten] >>,
              << [url |-> U_card, title |-> T_card, content |-> C_ten],
                 [url |-> U_card_1, title |-> T_card, content |-> C_ten] >>,
              << [url |-> U_card, title |-> T_help, content |-> C_ten2],
                 [url |-> U_faq, title |-> T_help, content |-> C_tags] >> }}

Credentials == {"GOOGLE_API_KEY", "CHROMA_API_KEY"}

Init ==
    /\ input_file \in PipelineFiles
    /\ processed_data = <<>>
    /\ raw_data = <<>>
    /\ relevant_data = <<>>
    /\ ncalls = 0
    /\ EmbedIdle /\ StoreIdle /\ CallIdle
    /\ env \in SUBSET Credentials
    /\ deps_ok \in BOOLEAN
    /\ argv_help \in BOOLEAN
    /\ log = <<>>
    /\ failed_at = "none"
    /\ success = "none"
    /\ exit_status = -1
    /\ pc = "main"

Next ==
    \/ MainHelp
    \/ MainRun
    \/ CheckDependencies
    \/ CheckApiKey
    \/ Preprocessing
    \/ EmbeddingStart
    \/ EngineNext
    \/ EmbeddingFinish
    \/ Storage
    \/ ChromaKeyMissing
    \/ ChromaConnectRaises
    \/ ChromaInsert
    \/ InsertNext
    \/ ChromaInsertRaised
    \/ ChromaFinish
    \/ MainExit

Spec == Init /\ [][Next]_vars

-----------------------------------------------------------------------------
(* Claims about the preprocessor.                                          *)

\* The filter rules as section 4.1 of the specification states them.
PassesAllRules(p) ==
    LET url     == Get(p, "url")
        title   == Get(p, "title")
        content == Get(p, "content")
    IN  /\ Strip(content) # <<>>
        /\ ~Contains(Lower(content), S_sentinel)
        /\ (url # <<>> => Contains(Lower(url), S_aven_com))
        /\ ~Contains(Lower(url), S_staging)
        /\ ~Contains(Lower(url), S_internal_crypto)
        /\ (title = <<>> => EndsWith(url, S_dot_pdf))

\* number of occurrences of x in s
Occurrences(s, x) == Cardinality({i \in DOMAIN s : s[i] = x})

\* s is t with some elements left out (relative order kept)
RECURSIVE IsSubsequence(_, _)
IsSubsequence(s, t) ==
    IF s = <<>> THEN TRUE
    ELSE IF t = <<>> THEN FALSE
    ELSE IF Head(s) = Head(t) THEN IsSubsequence(Tail(s), Tail(t))
    ELSE IsSubsequence(s, Tail(t))

\* C10: filter_relevant_content returns exactly the input pages that satisfy
\* all rules: a page failing a rule is absent, a page passing all rules
\* appears once per input occurrence, and the retained pages keep the
\* relative order of the input.
C10_FilterExact ==
    pc = "filtered" =>
        /\ \A i \in DOMAIN relevant_data : PassesAllRules(relevant_data[i])
        /\ \A i \in DOMAIN raw_data :
              PassesAllRules(raw_data[i]) =>
                  Occurrences(relevant_data, raw_data[i]) = Occurrences(raw_data, raw_data[i])
        /\ IsSubsequence(relevant_data, raw_data)

\* A list of two different pages of which the filter dropped the first and
\* kept the second.
C10_Witness ==
    /\ pc = "filtered"
    /\ Len(raw_data) = 2
    /\ raw_data[1] # raw_data[2]
    /\ ~PassesAllRules(raw_data[1])
    /\ relevant_data = <<raw_data[2]>>

\* C5: the ids of the items of processed_data are pairwise distinct, after
\* any number of process_data calls, also when pages share a url.
C5_IdsDistinct ==
    \A i, j \in DOMAIN processed_data :
        i # j => processed_data[i].id # processed_data[j].id

\* Two calls have run and two items of the collection come from one url.
C5_Witness ==
    /\ ncalls >= 2
    /\ \E i, j \in DOMAIN processed_data :
          /\ i # j
          /\ processed_data[i].metadata.url = processed_data[j].metadata.url

FaqPage     == [url |-> U_faq, title |-> T_faq, content |-> C_faq]
FaqLongPage == [url |-> U_faq, title |-> T_faq, content |-> C_ten2]

\* process_data has been called and its last call loaded the page
Loaded(page) == ncalls >= 1 /\ page \in Range(raw_data)

\* an item of processed_data made from the page, with category "support"
\* and the normalized content of the page as its only chunk
EmittedAsSupport(page) ==
    \E i \in DOMAIN processed_data :
        /\ processed_data[i].content = clean_content(page.content)
        /\ processed_data[i].metadata.url = page.url
        /\ processed_data[i].metadata.title = page.title
        /\ processed_data[i].metadata.category = "support"
        /\ processed_data[i].metadata.chunk_index = 0
        /\ processed_data[i].metadata.total_chunks = 1

\* the filter keeps the page, the categorizer answers "support" and the
\* chunker returns the normalized content as one chunk
KeptSupportOneChunk(page) ==
    /\ page \in Range(relevant_data)
    /\ categorize_content(page.url, page.title, clean_content(page.content)) = "support"
    /\ chunk_content(clean_content(page.content), MinChunkSize, MaxChunkSize, Overlap)
           = <<clean_content(page.content)>>

Labels == {"education", "support", "legal_document", "privacy_policy",
           "account_management", "signup", "product_info"}

\* The rules in their precedence: label and whether the rule matches the
\* lower-cased url u and title t.
Rules(u, t) ==
    << [label |-> "education",          matches |-> Contains(u, S_education) \/ Contains(t, S_education)],
       [label |-> "support",            matches |-> Contains(u, S_support) \/ Contains(t, S_help)],
       [label |-> "legal_document",     matches |-> Contains(u, S_dot_pdf) \/ Contains(u, S_docs)],
       [label |-> "privacy_policy",     matches |-> Contains(u, S_privacy) \/ Contains(t, S_privacy)],
       [label |-> "account_management", matches |-> Contains(u, S_login) \/ Contains(u, S_my_aven)],
       [label |-> "signup",             matches |-> Contains(u, S_join)] >>

\* the label of the first rule that matches, product_info when none does
FirstMatch(u, t) ==
    LET rules   == Rules(u, t)
        matched == {k \in DOMAIN rules : rules[k].matches}
    IN  IF matched = {} THEN "product_info"
        ELSE rules[CHOOSE k \in matched : \A m \in matched : k <= m].label

\* C16: categorize_content returns, for every (url, title) pair, both empty
\* included, exactly one label of the seven, and it is the label of the
\* first matching rule in the precedence education, support/help,
\* pdf-or-docs, privacy, login-or-subdomain, join, product_info otherwise.
C16_CategorizeTotalFirstMatch ==
    pc = "categorized" =>
        /\ Len(call_result) = 1
        /\ call_result[1] \in Labels
        /\ call_result[1] = FirstMatch(Lower(call_arg.url), Lower(call_arg.title))

\* A url matching the support rule only in upper case, with a title matching
\* the education rule, was categorized "education".
C16_Witness ==
    /\ pc = "categorized"
    /\ call_arg.url = F_SUPPORT \o S_dot_pdf
    /\ call_arg.title = T_education
    /\ call_result = <<"education">>

\* C13: a second call of process_data on the same preprocessor, reading the
\* same input as the first call, returns the collection the first call
\* returned: same items, same count, same ids, nothing accumulated.
C13_SecondCallSameResult ==
    [][(/\ ncalls = 1
        /\ ncalls' = 2
        /\ input_file' = input_file
        /\ load_data(input_file)[1] = raw_data) => processed_data' = processed_data]_vars

\* C11: clean_content is idempotent: cleaning the cleaned string returns the
\* cleaned string, for every input.
C11_CleanIdempotent ==
    (pc = "clean" /\ Len(call_result) = 2) => call_result[2] = call_result[1]

\* the chunks joined in order
RECURSIVE Concat(_)
Concat(chunks) == IF chunks = <<>> THEN <<>> ELSE Head(chunks) \o Concat(Tail(chunks))

\* C14: chunk_content returns at least one chunk for a non-empty text and
\* no chunk for the empty text, and the chunks joined in order are the text.
C14_ChunkCountAndConcat ==
    pc = "chunked" =>
        /\ call_arg.content # <<>> => Len(call_result) >= 1
        /\ call_arg.content = <<>> => Len(call_result) = 0
        /\ Concat(call_result) = call_arg.content

-----------------------------------------------------------------------------
(* Claims about the embedding engine.                                      *)

EmptySlots == {i \in DOMAIN embeddings : embeddings[i] = <<>>}

\* C1: generate_embeddings_batch returns exactly len(texts) slots, and slot
\* i holds the vector the remote returned for texts[i] or the empty vector,
\* for every batch size and every pattern of remote failures.
C1_SlotsParallel ==
    pc = "attach" =>
        /\ Len(embeddings) = Len(texts)
        /\ \A i \in DOMAIN embeddings :
              embeddings[i] \in {remote_embedding(texts[i]), <<>>}

\* Three texts in batches of two were embedded, a first pass was abandoned
\* and the result mixes an empty slot with a filled one.
C1_Witness ==
    /\ pc = "attach"
    /\ Len(texts) = 3
    /\ batch_size = 2
    /\ \E i \in DOMAIN calls : calls[i] = 2
    /\ EmptySlots # {}
    /\ EmptySlots # DOMAIN embeddings

\* the remote fails on every call for t and succeeds on every call for
\* every other text
FailsExactlyFor(t) ==
    /\ t \in DOMAIN remote
    /\ remote[t] = "fail"
    /\ \A u \in DOMAIN remote : u # t => remote[u] = "ok"

\* C2 as claimed: when the remote fails for exactly one text t, exactly one
\* slot is the empty vector and every other slot holds the remote's
\* non-empty output for its text.
C2_ExactlyOneEmptySlot ==
    (pc = "attach" /\ \E t \in DOMAIN remote : FailsExactlyFor(t)) =>
        /\ Cardinality(EmptySlots) = 1
        /\ \A i \in DOMAIN embeddings \ EmptySlots :
              embeddings[i] = remote_embedding(texts[i])

\* C2 (amended): when the remote fails for exactly one text t, the empty
\* slots are exactly the positions at which texts holds t (one slot when t
\* occurs once), and every other slot holds the remote's non-empty output
\* for its text.
C2_EmptySlotsAreThoseOfT ==
    \A t \in DOMAIN remote :
        (pc = "attach" /\ FailsExactlyFor(t)) =>
            /\ Len(embeddings) = Len(texts)
            /\ EmptySlots = {i \in DOMAIN texts : texts[i] = t}
            /\ \A i \in DOMAIN embeddings \ EmptySlots :
                  /\ embeddings[i] = remote_embedding(texts[i])
                  /\ embeddings[i] # <<>>
            /\ (Cardinality({i \in DOMAIN texts : texts[i] = t}) = 1
                    => Cardinality(EmptySlots) = 1)

\* t is the second of three different texts in batches of two: the first
\* text is embedded twice and t alone ends empty.
C2_Witness ==
    /\ pc = "attach"
    /\ Len(texts) = 3
    /\ batch_size = 2
    /\ FailsExactlyFor(texts[2])
    /\ texts[1] # texts[2] /\ texts[3] # texts[2]
    /\ calls = <<2, 2, 1>>
    /\ EmptySlots = {2}

\* C9: the success rate generate_summary reports is (items whose embedding
\* is non-empty) / (total items).
C9_RateCountsNonEmpty ==
    (pc = "summarised" /\ processed_data # <<>>) =>
        LET nonempty == Cardinality({i \in DOMAIN processed_data :
                            /\ HasEmbedding(processed_data[i])
                            /\ processed_data[i].embedding # <<>>})
            rate == summary.embedding_success_rate
        IN  rate.num * Len(processed_data) = nonempty * rate.den

\* 0-based start indices of the batches of texts
BatchStarts == {b \in 0..(Len(texts) - 1) : b % batch_size = 0}

\* positions (1-based) of the texts of the batch that starts at b
BatchOf(b) == (b + 1)..Min(b + batch_size, Len(texts))

\* the batch that starts at b went through without a failure: one call
\* per text, every slot is the vector of that call
BatchWentThrough(b) ==
    \A i \in BatchOf(b) :
        /\ calls[i] = 1
        /\ remote[texts[i]] # "fail"
        /\ embeddings[i] = remote_embedding(texts[i])

\* the first pass of the batch that starts at b failed at position f: the
\* texts up to f had a first call and one retry, the texts after f had the
\* retry only, and every slot is what a retry can give
BatchRetriedFrom(b, f) ==
    /\ remote[texts[f]] # "ok"
    /\ \A i \in BatchOf(b) :
          /\ i < f => remote[texts[i]] # "fail"
          /\ calls[i] = IF i <= f THEN 2 ELSE 1
          /\ remote[texts[i]] = "fail" => embeddings[i] = <<>>
          /\ remote[texts[i]] = "ok" => embeddings[i] = remote_embedding(texts[i])
          /\ embeddings[i] \in {<<>>, remote_embedding(texts[i])}

C17_Protocol ==
    pc \in {"batch_loop", "first_pass", "retry", "attach", "pdwe_returned", "summarised"} =>
        /\ \A i \in DOMAIN calls : calls[i] <= 2
        /\ SumSeq(calls) <= 2 * Len(texts)
        \* nothing of a first pass is kept before the whole pass succeeded
        /\ pc = "first_pass" =>
              /\ Len(embeddings) = bi
              /\ \A i \in BatchOf(bi) : calls[i] = IF i <= bi + bk THEN 1 ELSE 0
        \* in the retries the slots of the batch are those of the retries made
        /\ pc = "retry" =>
              /\ Len(embeddings) = bi + bk
              /\ \A i \in BatchOf(bi) : i > bi + bk => calls[i] <= 1
        \* the batches that are over
        /\ \A b \in BatchStarts :
              b < bi => \/ BatchWentThrough(b)
                        \/ \E f \in BatchOf(b) : BatchRetriedFrom(b, f)

\* C17: when a remote call of a batch fails, the rest of the first pass is
\* abandoned, the vectors of that first pass are discarded and every text of
\* the batch gets exactly one retry call whose outcome fills its slot; the
\* texts of the other batches are not called again; so no text gets more
\* than two calls, the total is at most 2*len(texts), and the run ends.
C17_RetryProtocol ==
    /\ []C17_Protocol
    /\ <>(pc = "summarised")

\* Three texts in batches of two: the first call of the first batch failed,
\* so its second text was called in the retry only, and the text of the
\* second batch was called once.
C17_Witness ==
    /\ pc = "attach"
    /\ batch_size = 2
    /\ calls = <<2, 1, 1>>
    /\ embeddings[1] = <<>>
    /\ embeddings[2] # <<>>
    /\ embeddings[3] # <<>>

\* C12: process_data_with_embeddings leaves the items it received from the
\* preprocessing stage as they were (the items carrying the embedding fields
\* are new ones).
C12_ReceivedItemsUnchanged ==
    pc \in {"pdwe_returned", "summarised"} => processed_data = received

-----------------------------------------------------------------------------
(* Claims about run_pipeline.                                              *)

StageNumber(stage) ==
    CASE stage = "checks"        -> 1
      [] stage = "preprocessing" -> 2
      [] stage = "embedding"     -> 3
      [] stage = "storage"       -> 4
      [] stage = "chromadb"      -> 5

StageSucceeded(n) == Event(n, "ok") \in Range(log)

\* C6: run_pipeline runs its stages in order and stops at the first stage
\* that fails (a check that returns False or a try block that raises; a
\* write error that save_processed_data or save_embeddings catches and
\* prints does not reach run_pipeline): no later stage acts, run_pipeline
\* returns False and the exit status is non-zero; exit status 0 after a run
\* of the pipeline occurs only if every stage succeeded.
C6_StopsAtFirstFailure ==
    /\ \A i, j \in DOMAIN log : i < j => log[i].stage <= log[j].stage
    /\ \A n \in 2..5 : (\E i \in DOMAIN log : log[i].stage = n) => StageSucceeded(n - 1)
    /\ failed_at # "none" =>
          /\ success = "False"
          /\ pc \in {"returned", "exited"}
          /\ \A i \in DOMAIN log : log[i].stage <= StageNumber(failed_at)
          /\ ~StageSucceeded(StageNumber(failed_at))
    /\ (pc = "exited" /\ failed_at # "none") => exit_status = 1
    /\ (pc = "exited" /\ ~argv_help /\ exit_status = 0) =>
          /\ failed_at = "none"
          /\ \A n \in 1..5 : StageSucceeded(n)

\* A run whose embedding calls were made and whose step 4 then failed: it
\* ended with status 1 and no store call.
C6_Witness ==
    /\ pc = "exited"
    /\ failed_at = "storage"
    /\ exit_status = 1
    /\ Event(3, "embed_call") \in Range(log)
    /\ Event(5, "store_add") \notin Range(log)

\* the events by which the absence of a credential is reported
CredentialReports == {Event(1, "GOOGLE_API_KEY not set"),
                      Event(5, "CHROMA_API_KEY not found")}

\* preprocessing, an embedding call or a file write
IsStageWork(e) ==
    \/ e \in {Event(2, "process_data"), Event(3, "embed_call")}
    \/ \E n \in 2..4 : \E f \in {"aven_processed_data.json", "aven_embeddings_data.json",
                                 "aven_embeddings_detailed.json", "embeddings_summary.json"} :
          e \in WriteEvents(n, f)

\* C7: when a required credential (of the embedding service or of the
\* vector store) is missing, no preprocessing, embedding call or file
\* write happens before its absence is reported.
C7_CredentialsBeforeStages ==
    (Credentials \ env # {}) =>
        \A i \in DOMAIN log :
            IsStageWork(log[i]) => \E j \in 1..(i - 1) : log[j] \in CredentialReports

\* the input file is missing or malformed
BadInput == input_file.kind \in FileKindsBad

Returned == pc \in {"returned", "exited"}

\* step 2 ended well: preprocessing yielded at least one item
PreprocessingYielded == Event(2, "ok") \in Range(log)

\* no call to the vector store failed: neither the connection (CloudClient,
\* get_or_create_collection) nor an add
AllStoreCallsSucceed ==
    /\ ~\E i \in 1..(Len(log) - 1) :
            log[i] = Event(5, "connect") /\ log[i + 1] = Event(5, "error")
    /\ \A k \in DOMAIN add_calls : add_calls[k].ok

\* ids handed to the store by the add calls, in the order of the calls
RECURSIVE SubmittedIds(_)
SubmittedIds(adds) ==
    IF adds = <<>> THEN <<>> ELSE Head(adds).ids \o SubmittedIds(Tail(adds))

\* every item of processed_data was submitted once, in order, and
\* run_pipeline returned True
AllSubmittedAndSuccess ==
    /\ Len(processed_data) >= 1
    /\ SubmittedIds(add_calls) = [i \in DOMAIN processed_data |-> processed_data[i].id]
    /\ success = "True"

\* C18 as claimed: in a run where preprocessing yields n >= 1 items and all
\* store calls succeed, every item, those with an empty embedding included,
\* is submitted to the vector store exactly once, in processed-data order,
\* and run_pipeline returns success.
C18_EmbeddingFailuresNeverStop ==
    (Returned /\ PreprocessingYielded /\ AllStoreCallsSucceed) => AllSubmittedAndSuccess

\* C18 (amended): the same, for the runs in which also the summary file of
\* step 4 is written and the credential of the vector store is set, so that
\* step 5 reaches the store.
C18_EmbeddingFailuresNeverStopStore ==
    (/\ Returned
     /\ PreprocessingYielded
     /\ AllStoreCallsSucceed
     /\ Event(4, "error") \notin Range(log)
     /\ "CHROMA_API_KEY" \in env) => AllSubmittedAndSuccess

\* A run over two pages in which every embedding call failed: both items
\* carry the empty vector, both were submitted in order and the run
\* returned True.
C18_Witness ==
    /\ Returned
    /\ Len(processed_data) = 2
    /\ \A i \in DOMAIN processed_data : processed_data[i].embedding = <<>>
    /\ SubmittedIds(add_calls) = <<processed_data[1].id, processed_data[2].id>>
    /\ success = "True"

=============================================================================
